---- MODULE Spec2Model ----
(***************************************************************************)
(* The password router of the platform's auth API                          *)
(* (apps/platform/trpc/routers/authRouter/passwordRouter.ts):              *)
(* signUpWithPassword, signInWithPassword and updateUserPassword, run by   *)
(* concurrent requests against one accounts table and one session store.   *)
(* A request is cut into steps at the awaits of its handler; everything    *)
(* between two awaits is local to the request.                             *)
(***************************************************************************)
EXTENDS Integers, Sequences, FiniteSets, TLC

VARIABLES accounts, sessions, req

vars == <<accounts, sessions, req>>

(***************************************************************************)
(* Bounds of the model.                                                    *)
(***************************************************************************)
\* Number of requests in flight or finished in one behaviour.
MaxReqs == 2

Reqs == 1..MaxReqs

(***************************************************************************)
(* Values.  An absent string input is the empty string (falsy in the       *)
(* handler's guards); a NULL column is the empty tuple.                    *)
(***************************************************************************)
Absent == ""

Null == <<>>

Usernames == {"alice", "bob"}

Passwords == {"Str0ng!Passw0rd", "0ther!Passw0rd"}

RecoveryCodes == {"recovery-1", "recovery-2"}

\* The credentials the seeded account may hold.
SeedPassword == "Str0ng!Passw0rd"

SeedRecoveryCode == "recovery-1"

\* Hex text of the seeded two-factor secret, one tuple element per character.
SeedTwoFactorSecret == <<"0", "a", "f", "3">>

(***************************************************************************)
(* Argon2id: hash embeds a per-call salt, verify compares the secret.      *)
(***************************************************************************)
Argon2idHash(secret, salt) == <<"argon2id", salt, secret>>

Argon2idVerify(hash, secret) ==
    Len(hash) = 3 /\ hash[1] = "argon2id" /\ hash[3] = secret

(***************************************************************************)
(* decodeHex and the TOTP controller.  The code of a secret is a function  *)
(* of its bytes (the time step is held fixed over a behaviour).            *)
(***************************************************************************)
HexDigit(c) ==
    CASE c = "0" -> 0 [] c = "1" -> 1 [] c = "2" -> 2 [] c = "3" -> 3
      [] c = "4" -> 4 [] c = "5" -> 5 [] c = "6" -> 6 [] c = "7" -> 7
      [] c = "8" -> 8 [] c = "9" -> 9 [] c = "a" -> 10 [] c = "b" -> 11
      [] c = "c" -> 12 [] c = "d" -> 13 [] c = "e" -> 14 [] c = "f" -> 15

decodeHex(hex) ==
    [i \in 1..(Len(hex) \div 2) |->
        16 * HexDigit(hex[2 * i - 1]) + HexDigit(hex[2 * i])]

TOTPGenerate(secret) == [i \in 1..Len(secret) |-> (7 * secret[i] + 3) % 10]

TOTPVerify(code, secret) == code = TOTPGenerate(secret)

\* The code the seeded secret yields, and one it does not.
GoodOtp == TOTPGenerate(decodeHex(SeedTwoFactorSecret))

BadOtp == <<0, 0>>

OtpCodes == {GoodOtp, BadOtp}

(***************************************************************************)
(* Error kinds, by the place that throws them.                             *)
(***************************************************************************)
ErrorMessage(op, kind) ==
    CASE kind = "InsufficientFactors" ->
            "You need to provide 2 of the following: Password, 2FA Code, Recovery Code"
      [] kind = "AccountNotFound" -> "User not found"
      [] kind = "PasswordSignInDisabled" -> "Password sign-in is not enabled"
      [] kind = "InvalidCredentials" /\ op = "signIn" ->
            "Incorrect username or password"
      [] kind = "InvalidCredentials" /\ op = "updatePassword" ->
            "Incorrect old password"
      [] kind = "OtpSignInDisabled" -> "2FA sign-in is not enabled"
      [] kind = "InvalidOtp" -> "Invalid 2FA code"
      [] kind = "RecoverySignInDisabled" -> "Recovery code sign-in is not enabled"
      [] kind = "InvalidRecoveryCode" -> "Invalid recovery code"
      [] kind = "AuthenticationFailed" ->
            "Something went wrong, please contact support"
      [] kind = "TwoFactorNotEnabled" ->
            "2FA is not enabled on this account, contact support"
      [] kind = "UsernameUnavailable" -> "Username is not available"
      [] OTHER -> kind

(***************************************************************************)
(* The accounts table: a set of rows.  tx is the request whose open        *)
(* transaction wrote the row, 0 once committed.                            *)
(***************************************************************************)
Row(id, username, publicId, passwordHash, twoFactorSecret, recoveryCode, tx) ==
    [id |-> id, username |-> username, publicId |-> publicId,
     passwordHash |-> passwordHash, twoFactorSecret |-> twoFactorSecret,
     recoveryCode |-> recoveryCode, lastLoginAt |-> 0, tx |-> tx]

Committed == {a \in accounts : a.tx = 0}

\* The columns signInWithPassword selects; id 0 stands for "no row".
NoUser ==
    [id |-> 0, publicId |-> Null, username |-> Absent, passwordHash |-> Null,
     twoFactorSecret |-> Null, recoveryCode |-> Null]

Columns(a) ==
    [id |-> a.id, publicId |-> a.publicId, username |-> a.username,
     passwordHash |-> a.passwordHash, twoFactorSecret |-> a.twoFactorSecret,
     recoveryCode |-> a.recoveryCode]

findFirstByUsername(username) ==
    IF \E a \in Committed : a.username = username
    THEN Columns(CHOOSE a \in Committed : a.username = username)
    ELSE NoUser

findFirstById(id) ==
    IF \E a \in Committed : a.id = id
    THEN Columns(CHOOSE a \in Committed : a.id = id)
    ELSE NoUser

\* db.update(accounts).set(...).where(eq(accounts.id, id)) for one column.
UpdateRecoveryCode(id, value) ==
    {IF a.id = id /\ a.tx = 0 THEN [a EXCEPT !.recoveryCode = value] ELSE a :
        a \in accounts}

\* UpdateLastLoginAt matching no row.
UpdateLastLoginAtNoRow(id, value) == accounts

UpdateLastLoginAt(id, value) ==
    {IF a.id = id /\ a.tx = 0 THEN [a EXCEPT !.lastLoginAt = value] ELSE a :
        a \in accounts}

\* UpdatePasswordHash with the recovery code reset in the same update.
UpdatePasswordHashAndRecovery(id, value) ==
    {IF a.id = id /\ a.tx = 0
     THEN [a EXCEPT !.passwordHash = value, !.recoveryCode = Null] ELSE a :
        a \in accounts}

UpdatePasswordHash(id, value) ==
    {IF a.id = id /\ a.tx = 0 THEN [a EXCEPT !.passwordHash = value] ELSE a :
        a \in accounts}

(***************************************************************************)
(* Sessions: createLuciaSessionCookie adds one, named after the request    *)
(* that asked for it; the seeded account starts with session 0.            *)
(***************************************************************************)
createLuciaSessionCookie(r, accountId, username, publicId) ==
    sessions \cup {[sid |-> r, accountId |-> accountId, username |-> username,
                    publicId |-> publicId, valid |-> TRUE]}

invalidateUserSessions(accountId) ==
    {IF s.accountId = accountId THEN [s EXCEPT !.valid = FALSE] ELSE s :
        s \in sessions}

(***************************************************************************)
(* Requests.                                                               *)
(***************************************************************************)
Idle ==
    [op |-> "idle", pc |-> "idle", input |-> <<>>, userResponse |-> NoUser,
     validPassword |-> FALSE, otpValid |-> FALSE, recoveryCodeValid |-> FALSE,
     accountId |-> 0, caught |-> Absent, error |-> Absent, session |-> 0,
     storeOps |-> {}, after |-> {}, sessionsBefore |-> {}]

Returned == {r \in Reqs : req[r].pc = "done"}

Begin(r, op, pc, input) ==
    req' = [req EXCEPT ![r] = [Idle EXCEPT !.op = op, !.pc = pc,
                                           !.input = input, !.after = Returned]]

Throw(r, kind) ==
    req' = [req EXCEPT ![r].pc = "done", ![r].error = kind]

Goto(r, pc) == req' = [req EXCEPT ![r].pc = pc]

(***************************************************************************)
(* signInWithPassword                                                      *)
(***************************************************************************)
NoCode == <<>>

\* The input schema in front of the handler: password is a string of eight
\* characters or more, so it is never absent; recoveryCode is optional.
\* zodSchemas.nanoIdToken is defined outside this file; twoFactorCode is taken
\* as optional, as the handler's own guard and the sign-in contract have it.
TwoFactorCodeInputs == OtpCodes \cup {NoCode}

SignInInputs ==
    [username : Usernames,
     password : Passwords,
     twoFactorCode : TwoFactorCodeInputs,
     recoveryCode : RecoveryCodes \cup {Absent}]

HasPassword(input) == input.password # Absent

HasTwoFactorCode(input) == input.twoFactorCode # NoCode

HasRecoveryCode(input) == input.recoveryCode # Absent

\* EnoughFactors asking for one factor only.
EnoughFactorsAny(input) ==
    HasPassword(input) \/ HasTwoFactorCode(input) \/ HasRecoveryCode(input)

\* The guard in front of the lookup: some pair of factors is present.
EnoughFactors(input) ==
    \/ HasPassword(input) /\ HasTwoFactorCode(input)
    \/ HasPassword(input) /\ HasRecoveryCode(input)
    \/ HasTwoFactorCode(input) /\ HasRecoveryCode(input)

\* PasswordCheck with the verify call's result ignored.
PasswordCheckUnverified(userResponse, input) ==
    IF ~HasPassword(input) THEN "skipped"
    ELSE IF userResponse.passwordHash = Null THEN "PasswordSignInDisabled"
    ELSE "valid"

\* PasswordCheck without the guard on a missing hash.
PasswordCheckNoGuard(userResponse, input) ==
    IF ~HasPassword(input) THEN "skipped"
    ELSE IF ~Argon2idVerify(userResponse.passwordHash, input.password)
         THEN "InvalidCredentials"
    ELSE "valid"

\* PasswordCheck with a wrong OTP code reported ahead of the password.
PasswordCheckAfterOtp(userResponse, input) ==
    IF /\ HasTwoFactorCode(input) /\ userResponse.twoFactorSecret # Null
       /\ ~TOTPVerify(input.twoFactorCode, decodeHex(userResponse.twoFactorSecret))
    THEN "InvalidOtp"
    ELSE IF ~HasPassword(input) THEN "skipped"
    ELSE IF userResponse.passwordHash = Null THEN "PasswordSignInDisabled"
    ELSE IF ~Argon2idVerify(userResponse.passwordHash, input.password)
         THEN "InvalidCredentials"
    ELSE "valid"

\* "verify password if provided": the error thrown, "valid", or "skipped".
PasswordCheck(userResponse, input) ==
    IF ~HasPassword(input) THEN "skipped"
    ELSE IF userResponse.passwordHash = Null THEN "PasswordSignInDisabled"
    ELSE IF ~Argon2idVerify(userResponse.passwordHash, input.password)
         THEN "InvalidCredentials"
    ELSE "valid"

\* OtpCheck with a mismatch recorded as a false outcome instead of thrown.
OtpCheckNoThrow(userResponse, input) ==
    IF ~HasTwoFactorCode(input) THEN "skipped"
    ELSE IF userResponse.twoFactorSecret = Null THEN "OtpSignInDisabled"
    ELSE IF ~TOTPVerify(input.twoFactorCode, decodeHex(userResponse.twoFactorSecret))
         THEN "skipped"
    ELSE "valid"

\* "verify otp if provided".
OtpCheck(userResponse, input) ==
    IF ~HasTwoFactorCode(input) THEN "skipped"
    ELSE IF userResponse.twoFactorSecret = Null THEN "OtpSignInDisabled"
    ELSE IF ~TOTPVerify(input.twoFactorCode, decodeHex(userResponse.twoFactorSecret))
         THEN "InvalidOtp"
    ELSE "valid"

\* RecoveryCheck with a mismatch recorded as a false outcome instead of thrown.
RecoveryCheckNoThrow(userResponse, input) ==
    IF ~HasRecoveryCode(input) THEN "skipped"
    ELSE IF userResponse.recoveryCode = Null THEN "RecoverySignInDisabled"
    ELSE IF ~Argon2idVerify(userResponse.recoveryCode, input.recoveryCode)
         THEN "skipped"
    ELSE "valid"

\* "verify recovery code if provided", up to the verify call's result.
RecoveryCheck(userResponse, input) ==
    IF ~HasRecoveryCode(input) THEN "skipped"
    ELSE IF userResponse.recoveryCode = Null THEN "RecoverySignInDisabled"
    ELSE IF ~Argon2idVerify(userResponse.recoveryCode, input.recoveryCode)
         THEN "InvalidRecoveryCode"
    ELSE "valid"

\* ClearRecoveryCode with the update left out.
ClearRecoveryCodeSkipped(userResponse) == accounts

\* "Remove the used recovery code from the database".
ClearRecoveryCode(userResponse) == UpdateRecoveryCode(userResponse.id, Null)

\* TwoFactorsValid asking for all three factors.
TwoFactorsValidAllThree(validPassword, otpValid, recoveryCodeValid) ==
    validPassword /\ otpValid /\ recoveryCodeValid

\* The final decision.
TwoFactorsValid(validPassword, otpValid, recoveryCodeValid) ==
    \/ validPassword /\ otpValid
    \/ validPassword /\ recoveryCodeValid
    \/ otpValid /\ recoveryCodeValid

\* The handler is entered; the factor-count guard runs before the query.
SignInStart(r) ==
    /\ req[r].pc = "idle"
    /\ \E input \in SignInInputs :
          IF EnoughFactors(input)
          THEN Begin(r, "signIn", "lookup", input)
          ELSE req' = [req EXCEPT ![r] =
                          [Idle EXCEPT !.op = "signIn", !.pc = "done",
                                       !.input = input, !.after = Returned,
                                       !.error = "InsufficientFactors"]]
    /\ UNCHANGED <<accounts, sessions>>

\* db.query.accounts.findFirst by username.
SignInLookup(r) ==
    /\ req[r].op = "signIn" /\ req[r].pc = "lookup"
    /\ LET userResponse == findFirstByUsername(req[r].input.username) IN
          req' = [req EXCEPT
                     ![r].userResponse = userResponse,
                     ![r].storeOps = @ \cup {"findFirst"},
                     ![r].pc = IF userResponse = NoUser THEN "done" ELSE "password",
                     ![r].error = IF userResponse = NoUser
                                  THEN "AccountNotFound" ELSE @]
    /\ UNCHANGED <<accounts, sessions>>

SignInPassword(r) ==
    /\ req[r].op = "signIn" /\ req[r].pc = "password"
    /\ LET res == PasswordCheck(req[r].userResponse, req[r].input) IN
          IF res \in {"skipped", "valid"}
          THEN req' = [req EXCEPT ![r].validPassword = (res = "valid"),
                                  ![r].pc = "otp"]
          ELSE Throw(r, res)
    /\ UNCHANGED <<accounts, sessions>>

SignInOtp(r) ==
    /\ req[r].op = "signIn" /\ req[r].pc = "otp"
    /\ LET res == OtpCheck(req[r].userResponse, req[r].input) IN
          IF res \in {"skipped", "valid"}
          THEN req' = [req EXCEPT ![r].otpValid = (res = "valid"),
                                  ![r].pc = "recovery"]
          ELSE Throw(r, res)
    /\ UNCHANGED <<accounts, sessions>>

\* The recovery code is verified against the row read by the lookup; a
\* valid one goes on to the update that clears it.
SignInRecovery(r) ==
    /\ req[r].op = "signIn" /\ req[r].pc = "recovery"
    /\ LET res == RecoveryCheck(req[r].userResponse, req[r].input) IN
          IF res = "skipped" THEN Goto(r, "decide")
          ELSE IF res = "valid" THEN Goto(r, "clear")
          ELSE Throw(r, res)
    /\ UNCHANGED <<accounts, sessions>>

SignInClearRecovery(r) ==
    /\ req[r].op = "signIn" /\ req[r].pc = "clear"
    /\ accounts' = ClearRecoveryCode(req[r].userResponse)
    /\ req' = [req EXCEPT ![r].recoveryCodeValid = TRUE,
                          ![r].storeOps = @ \cup {"clearRecoveryCode"},
                          ![r].pc = "decide"]
    /\ UNCHANGED sessions

SignInDecide(r) ==
    /\ req[r].op = "signIn" /\ req[r].pc = "decide"
    /\ IF TwoFactorsValid(req[r].validPassword, req[r].otpValid,
                          req[r].recoveryCodeValid)
       THEN Goto(r, "session")
       ELSE Throw(r, "AuthenticationFailed")
    /\ UNCHANGED <<accounts, sessions>>

SignInSession(r) ==
    /\ req[r].op = "signIn" /\ req[r].pc = "session"
    /\ sessions' = createLuciaSessionCookie(r, req[r].userResponse.id,
                                            req[r].userResponse.username,
                                            req[r].userResponse.publicId)
    /\ req' = [req EXCEPT ![r].session = r, ![r].pc = "lastLogin"]
    /\ UNCHANGED accounts

SignInLastLogin(r) ==
    /\ req[r].op = "signIn" /\ req[r].pc = "lastLogin"
    /\ accounts' = UpdateLastLoginAt(req[r].userResponse.id, r)
    /\ req' = [req EXCEPT ![r].storeOps = @ \cup {"setLastLoginAt"},
                          ![r].pc = "done"]
    /\ UNCHANGED sessions

signInWithPassword(r) ==
    \/ SignInStart(r)
    \/ SignInLookup(r)
    \/ SignInPassword(r)
    \/ SignInOtp(r)
    \/ SignInRecovery(r)
    \/ SignInClearRecovery(r)
    \/ SignInDecide(r)
    \/ SignInSession(r)
    \/ SignInLastLogin(r)

(***************************************************************************)
(* signUpWithPassword                                                      *)
(***************************************************************************)
SignUpInputs == [username : Usernames, password : Passwords]

typeIdGenerator(r) == <<"account", r>>

\* validateUsername(tx, username): the name is free among the rows the
\* transaction can see (committed ones; it has written none itself yet).
validateUsername(username) == ~\E a \in Committed : a.username = username

\* The unique key on username: an insert fails on a committed row of the
\* same name and waits for an open transaction that wrote one.
DuplicateUsername(username) == \E a \in Committed : a.username = username

InsertWaits(r, username) ==
    \E a \in accounts : a.username = username /\ a.tx \notin {0, r}

\* The auto-increment key: one more than the largest id in the table.
insertId ==
    1 + (CHOOSE m \in {a.id : a \in accounts} \cup {0} :
            \A a \in accounts : a.id <= m)

NewAccount(r, username, password) ==
    Row(insertId, username, typeIdGenerator(r),
        Argon2idHash(password, r), Null, Null, r)

\* Rollback with the transaction's rows left in place, as if committed.
RollbackOmitted(r) ==
    {IF a.tx = r THEN [a EXCEPT !.tx = 0] ELSE a : a \in accounts}

\* tx.rollback() and the ROLLBACK it leads to: the rows the transaction
\* wrote are gone.
Rollback(r) == {a \in accounts : a.tx # r}

\* COMMIT: the rows the transaction wrote become visible.
Commit(r) == {IF a.tx = r THEN [a EXCEPT !.tx = 0] ELSE a : a \in accounts}

SignUpStart(r) ==
    /\ req[r].pc = "idle"
    /\ \E input \in SignUpInputs : Begin(r, "signUp", "validate", input)
    /\ UNCHANGED <<accounts, sessions>>

SignUpValidate(r) ==
    /\ req[r].op = "signUp" /\ req[r].pc = "validate"
    /\ IF validateUsername(req[r].input.username)
       THEN req' = [req EXCEPT ![r].storeOps = @ \cup {"validateUsername"},
                               ![r].pc = "insert"]
       ELSE req' = [req EXCEPT ![r].storeOps = @ \cup {"validateUsername"},
                               ![r].caught = "UsernameUnavailable",
                               ![r].pc = "catch"]
    /\ UNCHANGED <<accounts, sessions>>

\* tx.insert(accounts).values(...) returns the new row's id.
SignUpInsert(r) ==
    /\ req[r].op = "signUp" /\ req[r].pc = "insert"
    /\ ~InsertWaits(r, req[r].input.username)
    /\ ~DuplicateUsername(req[r].input.username)
    /\ accounts' = accounts \cup
                     {NewAccount(r, req[r].input.username, req[r].input.password)}
    /\ req' = [req EXCEPT ![r].accountId = insertId,
                          ![r].storeOps = @ \cup {"insert"},
                          ![r].pc = "commit"]
    /\ UNCHANGED sessions

\* The insert throws: the unique key refuses it, or the store fails (a lost
\* connection, a lock wait that times out), before or after the row was
\* written inside the transaction.
SignUpInsertFails(r) ==
    /\ req[r].op = "signUp" /\ req[r].pc = "insert"
    /\ \/ /\ ~InsertWaits(r, req[r].input.username)
          /\ DuplicateUsername(req[r].input.username)
          /\ UNCHANGED accounts
       \/ UNCHANGED accounts
       \/ /\ ~InsertWaits(r, req[r].input.username)
          /\ ~DuplicateUsername(req[r].input.username)
          /\ accounts' = accounts \cup
                {NewAccount(r, req[r].input.username, req[r].input.password)}
    /\ req' = [req EXCEPT ![r].caught = "Internal",
                          ![r].storeOps = @ \cup {"insert"},
                          ![r].pc = "catch"]
    /\ UNCHANGED sessions

\* SignUpCatch with the error swallowed: the handler goes on to the session.
SignUpCatchSwallows(r) ==
    /\ req[r].op = "signUp" /\ req[r].pc = "catch"
    /\ accounts' = Rollback(r)
    /\ Goto(r, "session")
    /\ UNCHANGED sessions

\* catch (err) { tx.rollback(); ... }: rollback() itself throws, so the
\* transaction ends with its TransactionRollbackError, not with err.
SignUpCatch(r) ==
    /\ req[r].op = "signUp" /\ req[r].pc = "catch"
    /\ accounts' = Rollback(r)
    /\ req' = [req EXCEPT ![r].error = "TransactionRollbackError",
                          ![r].pc = "done"]
    /\ UNCHANGED sessions

SignUpCommit(r) ==
    /\ req[r].op = "signUp" /\ req[r].pc = "commit"
    /\ accounts' = Commit(r)
    /\ Goto(r, "session")
    /\ UNCHANGED sessions

SignUpSession(r) ==
    /\ req[r].op = "signUp" /\ req[r].pc = "session"
    /\ sessions' = createLuciaSessionCookie(r, req[r].accountId,
                                            req[r].input.username,
                                            typeIdGenerator(r))
    /\ req' = [req EXCEPT ![r].session = r, ![r].pc = "lastLogin"]
    /\ UNCHANGED accounts

SignUpLastLogin(r) ==
    /\ req[r].op = "signUp" /\ req[r].pc = "lastLogin"
    /\ accounts' = UpdateLastLoginAt(req[r].accountId, r)
    /\ req' = [req EXCEPT ![r].storeOps = @ \cup {"setLastLoginAt"},
                          ![r].pc = "done"]
    /\ UNCHANGED sessions

signUpWithPassword(r) ==
    \/ SignUpStart(r)
    \/ SignUpValidate(r)
    \/ SignUpInsert(r)
    \/ SignUpInsertFails(r)
    \/ SignUpCatch(r)
    \/ SignUpCommit(r)
    \/ SignUpSession(r)
    \/ SignUpLastLogin(r)

(***************************************************************************)
(* updateUserPassword                                                      *)
(***************************************************************************)
UpdatePasswordInputs ==
    [oldPassword : Passwords, newPassword : Passwords, otp : OtpCodes,
     invalidateAllSessions : BOOLEAN]

\* accountProcedure: ctx.account is the account of a session that is valid
\* when the request comes in.
AuthenticatedAccounts == {s.accountId : s \in {t \in sessions : t.valid}}

\* UpdatePasswordCheck without the two-factor confirmation.
UpdatePasswordCheckNoOtp(accountData, input) ==
    IF accountData = NoUser THEN "AccountNotFound"
    ELSE IF accountData.passwordHash = Null THEN "PasswordSignInDisabled"
    ELSE IF ~Argon2idVerify(accountData.passwordHash, input.oldPassword)
         THEN "InvalidCredentials"
    ELSE "valid"

\* The checks between the lookup and the update, in the handler's order:
\* the error thrown, or "valid".
UpdatePasswordCheck(accountData, input) ==
    IF accountData = NoUser THEN "AccountNotFound"
    ELSE IF accountData.passwordHash = Null THEN "PasswordSignInDisabled"
    ELSE IF ~Argon2idVerify(accountData.passwordHash, input.oldPassword)
         THEN "InvalidCredentials"
    ELSE IF accountData.twoFactorSecret = Null THEN "TwoFactorNotEnabled"
    ELSE IF ~TOTPVerify(input.otp, decodeHex(accountData.twoFactorSecret))
         THEN "InvalidOtp"
    ELSE "valid"

UpdatePasswordStart(r) ==
    /\ req[r].pc = "idle"
    /\ \E input \in UpdatePasswordInputs, accountId \in AuthenticatedAccounts :
          req' = [req EXCEPT ![r] =
                     [Idle EXCEPT !.op = "updatePassword", !.pc = "lookup",
                                  !.input = input, !.accountId = accountId,
                                  !.after = Returned,
                                  !.sessionsBefore =
                                      {t.sid : t \in sessions}]]
    /\ UNCHANGED <<accounts, sessions>>

\* db.query.accounts.findFirst by id.
UpdatePasswordLookup(r) ==
    /\ req[r].op = "updatePassword" /\ req[r].pc = "lookup"
    /\ req' = [req EXCEPT ![r].userResponse = findFirstById(req[r].accountId),
                          ![r].storeOps = @ \cup {"findFirst"},
                          ![r].pc = "verify"]
    /\ UNCHANGED <<accounts, sessions>>

\* UpdatePasswordVerify with the hash written before the checks are judged.
UpdatePasswordVerifyAfterWrite(r) ==
    /\ req[r].op = "updatePassword" /\ req[r].pc = "verify"
    /\ accounts' = UpdatePasswordHash(req[r].accountId,
                                      Argon2idHash(req[r].input.newPassword, r))
    /\ LET res == UpdatePasswordCheck(req[r].userResponse, req[r].input) IN
          IF res = "valid"
          THEN req' = [req EXCEPT ![r].validPassword = TRUE,
                                  ![r].otpValid = TRUE,
                                  ![r].pc = "update"]
          ELSE Throw(r, res)
    /\ UNCHANGED sessions

UpdatePasswordVerify(r) ==
    /\ req[r].op = "updatePassword" /\ req[r].pc = "verify"
    /\ LET res == UpdatePasswordCheck(req[r].userResponse, req[r].input) IN
          IF res = "valid"
          THEN req' = [req EXCEPT ![r].validPassword = TRUE,
                                  ![r].otpValid = TRUE,
                                  ![r].pc = "update"]
          ELSE Throw(r, res)
    /\ UNCHANGED <<accounts, sessions>>

\* UpdatePasswordUpdate hashing the old password instead of the new one.
UpdatePasswordUpdateOldPassword(r) ==
    /\ req[r].op = "updatePassword" /\ req[r].pc = "update"
    /\ accounts' = UpdatePasswordHash(req[r].accountId,
                                      Argon2idHash(req[r].input.oldPassword, r))
    /\ req' = [req EXCEPT ![r].storeOps = @ \cup {"setPasswordHash"},
                          ![r].pc = IF req[r].input.invalidateAllSessions
                                    THEN "invalidate" ELSE "session"]
    /\ UNCHANGED sessions

\* The new hash is written to the row.
UpdatePasswordUpdate(r) ==
    /\ req[r].op = "updatePassword" /\ req[r].pc = "update"
    /\ accounts' = UpdatePasswordHash(req[r].accountId,
                                      Argon2idHash(req[r].input.newPassword, r))
    /\ req' = [req EXCEPT ![r].storeOps = @ \cup {"setPasswordHash"},
                          ![r].pc = IF req[r].input.invalidateAllSessions
                                    THEN "invalidate" ELSE "session"]
    /\ UNCHANGED sessions

\* UpdatePasswordInvalidate with the call to lucia left out.
UpdatePasswordInvalidateSkipped(r) ==
    /\ req[r].op = "updatePassword" /\ req[r].pc = "invalidate"
    /\ Goto(r, "session")
    /\ UNCHANGED <<accounts, sessions>>

\* "Invalidate all sessions if requested".
UpdatePasswordInvalidate(r) ==
    /\ req[r].op = "updatePassword" /\ req[r].pc = "invalidate"
    /\ sessions' = invalidateUserSessions(req[r].accountId)
    /\ req' = [req EXCEPT ![r].storeOps = @ \cup {"invalidateUserSessions"},
                          ![r].pc = "session"]
    /\ UNCHANGED accounts

UpdatePasswordSession(r) ==
    /\ req[r].op = "updatePassword" /\ req[r].pc = "session"
    /\ sessions' = createLuciaSessionCookie(r, req[r].accountId,
                                            req[r].userResponse.username,
                                            req[r].userResponse.publicId)
    /\ req' = [req EXCEPT ![r].session = r, ![r].pc = "done"]
    /\ UNCHANGED accounts

updateUserPassword(r) ==
    \/ UpdatePasswordStart(r)
    \/ UpdatePasswordLookup(r)
    \/ UpdatePasswordVerify(r)
    \/ UpdatePasswordUpdate(r)
    \/ UpdatePasswordInvalidate(r)
    \/ UpdatePasswordSession(r)

(***************************************************************************)
(* The state the service starts in: one account, "alice", holding any      *)
(* subset of the three credentials, and one session of hers.               *)
(***************************************************************************)
SeedAccounts ==
    {Row(1, "alice", <<"account", 0>>, ph, tfs, rc, 0) :
        ph \in {Null, Argon2idHash(SeedPassword, 0)},
        tfs \in {Null, SeedTwoFactorSecret},
        rc \in {Null, Argon2idHash(SeedRecoveryCode, 0)}}

Init ==
    /\ \E a \in SeedAccounts : accounts = {a}
    /\ sessions = {[sid |-> 0, accountId |-> 1, username |-> "alice",
                    publicId |-> <<"account", 0>>, valid |-> TRUE]}
    /\ req = [r \in Reqs |-> Idle]

Next ==
    \E r \in Reqs :
        signUpWithPassword(r) \/ signInWithPassword(r) \/ updateUserPassword(r)

Spec == Init /\ [][Next]_vars

\* A request that awaits its lastLoginAt update gets it done: the handler has
\* nothing left to wait for but the store's answer.
FairSpec ==
    /\ Spec
    /\ \A r \in Reqs :
          WF_vars(SignInLastLogin(r)) /\ WF_vars(SignUpLastLogin(r))

(***************************************************************************)
(* Vocabulary of the properties.  A factor is judged against the row the   *)
(* request's lookup returned.                                              *)
(***************************************************************************)
SignIns == {r \in Reqs : req[r].op = "signIn"}

SignUps == {r \in Reqs : req[r].op = "signUp"}

LookedUp(r) == req[r].userResponse # NoUser

NumFactors(input) ==
    Cardinality({f \in {"password", "otp", "recovery"} :
                    \/ f = "password" /\ input.password # Absent
                    \/ f = "otp" /\ input.twoFactorCode # NoCode
                    \/ f = "recovery" /\ input.recoveryCode # Absent})

PasswordEnrolled(r) == req[r].userResponse.passwordHash # Null

OtpEnrolled(r) == req[r].userResponse.twoFactorSecret # Null

RecoveryEnrolled(r) == req[r].userResponse.recoveryCode # Null

PasswordRight(r) ==
    /\ req[r].input.password # Absent
    /\ PasswordEnrolled(r)
    /\ req[r].userResponse.passwordHash[3] = req[r].input.password

OtpRight(r) ==
    /\ req[r].input.twoFactorCode # NoCode
    /\ OtpEnrolled(r)
    /\ req[r].input.twoFactorCode =
          TOTPGenerate(decodeHex(req[r].userResponse.twoFactorSecret))

RecoveryRight(r) ==
    /\ req[r].input.recoveryCode # Absent
    /\ RecoveryEnrolled(r)
    /\ req[r].userResponse.recoveryCode[3] = req[r].input.recoveryCode

RightFactors(r) ==
    {f \in {"password", "otp", "recovery"} :
        \/ f = "password" /\ PasswordRight(r)
        \/ f = "otp" /\ OtpRight(r)
        \/ f = "recovery" /\ RecoveryRight(r)}

\* Two factors or more are supplied and every supplied factor is right.
AllSuppliedRight(r) ==
    /\ NumFactors(req[r].input) >= 2
    /\ Cardinality(RightFactors(r)) = NumFactors(req[r].input)

Succeeded(r) == req[r].pc = "done" /\ req[r].error = Absent

Failed(r, kind) == req[r].pc = "done" /\ req[r].error = kind

NoSessionFor(r) == req[r].session = 0 /\ ~\E s \in sessions : s.sid = r

\* C1: every session issued by a sign-in belongs to the account its lookup
\* returned for the request's username, and at least two distinct factors of
\* the request were supplied and right for that account.
C1_TwoValidFactors ==
    \A s \in sessions :
        (s.sid \in SignIns) =>
            /\ LookedUp(s.sid)
            /\ req[s.sid].userResponse.username = req[s.sid].input.username
            /\ req[s.sid].userResponse.id = s.accountId
            /\ Cardinality(RightFactors(s.sid)) >= 2

C1_Witness ==
    \E s \in sessions : s.sid \in SignIns /\ Succeeded(s.sid)

\* C4: a sign-in with fewer than two factors present ends at once with
\* InsufficientFactors, having made no access to the accounts table and holding
\* no session.
C4_InsufficientFactorsFirst ==
    \A r \in SignIns :
        NumFactors(req[r].input) < 2 =>
            /\ Failed(r, "InsufficientFactors")
            /\ req[r].storeOps = {}
            /\ ~LookedUp(r)
            /\ NoSessionFor(r)

C4_Witness ==
    \E r \in SignIns :
        /\ NumFactors(req[r].input) = 1
        /\ Failed(r, "InsufficientFactors")
        /\ \E a \in Committed : a.username = req[r].input.username

\* C5: a sign-in that supplies a password and at least one more factor, for an
\* account found without a password hash, ends with PasswordSignInDisabled
\* once it is past the lookup, whatever the password and the other factors.
C5_PasswordDisabled ==
    \A r \in SignIns :
        ( /\ LookedUp(r)
          /\ ~PasswordEnrolled(r)
          /\ req[r].input.password # Absent
          /\ NumFactors(req[r].input) >= 2
          /\ req[r].pc # "password" ) =>
            /\ Failed(r, "PasswordSignInDisabled")
            /\ NoSessionFor(r)

C5_Witness ==
    \E r \in SignIns :
        /\ LookedUp(r) /\ ~PasswordEnrolled(r)
        /\ OtpRight(r)
        /\ Failed(r, "PasswordSignInDisabled")

\* Two sign-ins for the same username that both present a recovery code that
\* is right for the row each of them looked up, next to one or two other
\* factors that are right as well.
SameRecoveryCodeTwice(r1, r2) ==
    /\ r1 # r2
    /\ r1 \in SignIns /\ r2 \in SignIns
    /\ req[r1].input.username = req[r2].input.username
    /\ req[r1].input.recoveryCode = req[r2].input.recoveryCode
    /\ RecoveryRight(r1) /\ RecoveryRight(r2)
    /\ req[r1].userResponse.recoveryCode = req[r2].userResponse.recoveryCode
    /\ AllSuppliedRight(r1) /\ AllSuppliedRight(r2)

\* C2: of two such sign-ins at most one is issued a session, and once both
\* have returned exactly one has succeeded and the other has failed with
\* InvalidRecoveryCode.
C2_RecoveryCodeExactlyOnce ==
    \A r1, r2 \in Reqs :
        SameRecoveryCodeTwice(r1, r2) =>
            /\ ~(req[r1].session # 0 /\ req[r2].session # 0)
            /\ (req[r1].pc = "done" /\ req[r2].pc = "done") =>
                  \/ Succeeded(r1) /\ Failed(r2, "InvalidRecoveryCode")
                  \/ Succeeded(r2) /\ Failed(r1, "InvalidRecoveryCode")

\* A sign-in r2 that starts after sign-in r1 has succeeded on a password and a
\* recovery code, for the same username and with the same recovery code, with
\* a password that is right and an OTP code that, if supplied, is right too.
ReusesRecoveryCode(r1, r2) ==
    /\ r1 \in SignIns /\ r2 \in SignIns
    /\ r1 \in req[r2].after
    /\ Succeeded(r1) /\ req[r1].session # 0
    /\ PasswordRight(r1) /\ RecoveryRight(r1)
    /\ req[r2].input.username = req[r1].input.username
    /\ req[r2].input.recoveryCode = req[r1].input.recoveryCode
    /\ req[r2].pc = "done"
    /\ PasswordRight(r2)
    /\ req[r2].input.twoFactorCode # NoCode => OtpRight(r2)

\* C3 as stated: the second sign-in fails with InvalidRecoveryCode and has no
\* session.
C3_ReuseFailsInvalidRecoveryCode ==
    \A r1, r2 \in Reqs :
        ReusesRecoveryCode(r1, r2) =>
            Failed(r2, "InvalidRecoveryCode") /\ NoSessionFor(r2)

\* C3 as amended: the second sign-in finds the recovery code column empty and
\* fails with RecoverySignInDisabled; it has no session.
C3_ReuseFailsRecoveryDisabled ==
    \A r1, r2 \in Reqs :
        ReusesRecoveryCode(r1, r2) =>
            /\ Failed(r2, "RecoverySignInDisabled")
            /\ ~RecoveryEnrolled(r2)
            /\ NoSessionFor(r2)

C3_Witness ==
    \E r1, r2 \in Reqs :
        /\ ReusesRecoveryCode(r1, r2)
        /\ req[r2].input.twoFactorCode = NoCode
        /\ Failed(r2, "RecoverySignInDisabled")

\* A sign-in that has returned, for an account with OTP enrolled, with the
\* right password, a wrong OTP code and no recovery code.
RightPasswordWrongOtp(r) ==
    /\ r \in SignIns /\ req[r].pc = "done" /\ LookedUp(r)
    /\ PasswordRight(r)
    /\ OtpEnrolled(r)
    /\ req[r].input.twoFactorCode # NoCode /\ ~OtpRight(r)

WrongPasswordRightOtp(r) ==
    /\ r \in SignIns /\ req[r].pc = "done" /\ LookedUp(r)
    /\ PasswordEnrolled(r)
    /\ req[r].input.password # Absent /\ ~PasswordRight(r)
    /\ OtpRight(r)

\* What a caller sees of a failure, and what the request wrote to the store.
Outcome(r) ==
    <<req[r].error, ErrorMessage(req[r].op, req[r].error), req[r].session>>

StoreWrites(r) == req[r].storeOps \ {"findFirst"}

OneWrongOfThree(r) ==
    /\ r \in SignIns /\ req[r].pc = "done" /\ LookedUp(r)
    /\ NumFactors(req[r].input) = 3
    /\ PasswordEnrolled(r) /\ OtpEnrolled(r) /\ RecoveryEnrolled(r)
    /\ Cardinality(RightFactors(r)) = 2

\* The error a wrong factor is reported with.
ErrorOfFactor(f) ==
    CASE f = "password" -> "InvalidCredentials"
      [] f = "otp" -> "InvalidOtp"
      [] f = "recovery" -> "InvalidRecoveryCode"

\* C8 as stated: two right factors out of three supplied are accepted.
C8_TwoOfThreeAccepted ==
    \A r \in Reqs :
        OneWrongOfThree(r) => Succeeded(r) /\ req[r].session # 0

\* C8 as amended: the checks run one after the other and the wrong factor
\* ends the sign-in with its own error; no session is issued.
C8_OneWrongOfThreeRejected ==
    \A r \in Reqs :
        OneWrongOfThree(r) =>
            /\ \A f \in {"password", "otp", "recovery"} \ RightFactors(r) :
                  Failed(r, ErrorOfFactor(f))
            /\ NoSessionFor(r)

C8_Witness ==
    \E r \in Reqs :
        /\ OneWrongOfThree(r)
        /\ RightFactors(r) = {"password", "otp"}
        /\ Failed(r, "InvalidRecoveryCode")

\* A sign-up that has returned after its insert threw, the availability check
\* having passed.
InsertFailed(r) ==
    r \in SignUps /\ req[r].pc = "done" /\ req[r].caught = "Internal"

RowsOf(r) == {a \in accounts : a.publicId = typeIdGenerator(r)}

\* C9 as stated: no account row for the username exists and the request has
\* no session.
C9_NoRowForUsername ==
    \A r \in Reqs :
        InsertFailed(r) =>
            /\ ~\E a \in Committed : a.username = req[r].input.username
            /\ NoSessionFor(r)

\* C9 as amended: no row written by the request exists, committed or not; a
\* row of that username is the committed or pending insert of another sign-up;
\* the request has an error and no session.
C9_NoRowOfFailedSignUp ==
    \A r \in Reqs :
        InsertFailed(r) =>
            /\ RowsOf(r) = {}
            /\ \A a \in accounts :
                  a.username = req[r].input.username =>
                      \E r2 \in SignUps \ {r} : a \in RowsOf(r2)
            /\ req[r].error # Absent
            /\ NoSessionFor(r)

\* The insert threw with the username still free, and the request has
\* returned.
C9_Witness ==
    \E r \in Reqs :
        /\ InsertFailed(r)
        /\ req[r].accountId = 0
        /\ "insert" \in req[r].storeOps
        /\ ~\E a \in accounts : a.username = req[r].input.username

\* C10: no two rows of the accounts table carry the same username, and of two
\* sign-ups for the same username at most one is issued a session.
C10_OneSignUpPerUsername ==
    /\ \A a, b \in accounts : a.username = b.username => a = b
    /\ \A r1, r2 \in SignUps :
          (r1 # r2 /\ req[r1].input.username = req[r2].input.username) =>
              ~(req[r1].session # 0 /\ req[r2].session # 0)

\* Two sign-ups for one username ran side by side, both past the availability
\* check; one has succeeded and the other's insert was refused.
C10_Witness ==
    \E r1, r2 \in SignUps :
        /\ r1 # r2 /\ req[r1].input.username = req[r2].input.username
        /\ r1 \notin req[r2].after /\ r2 \notin req[r1].after
        /\ Succeeded(r1) /\ req[r1].session # 0
        /\ InsertFailed(r2)

UpdatePasswords == {r \in Reqs : req[r].op = "updatePassword"}

\* The step on which request r returns.
Returns(r) == req[r].pc # "done" /\ req'[r].pc = "done"

\* C11: when an updateUserPassword with invalidateAllSessions set returns with
\* success, every session of the account that existed when the call came in
\* is invalid and the session the call issued is valid.
C11_InvalidateBeforeIssue ==
    [][\A r \in UpdatePasswords :
          ( /\ Returns(r)
            /\ req'[r].error = Absent
            /\ req[r].input.invalidateAllSessions ) =>
              /\ \A s \in sessions' :
                    (s.accountId = req[r].accountId
                        /\ s.sid \in req[r].sessionsBefore) => ~s.valid
              /\ \E s \in sessions' :
                    s.sid = r /\ s.accountId = req[r].accountId /\ s.valid]_vars

\* Such a call has returned: the seeded session is invalid, the new one valid.
C11_Witness ==
    \E r \in UpdatePasswords :
        /\ Succeeded(r) /\ req[r].input.invalidateAllSessions
        /\ 0 \in req[r].sessionsBefore
        /\ \E s \in sessions : s.sid = 0 /\ ~s.valid
        /\ \E s \in sessions : s.sid = r /\ s.valid

\* The old password and the OTP code of an updateUserPassword, judged against
\* the row its lookup returned.
OldPasswordRight(r) ==
    /\ PasswordEnrolled(r)
    /\ req[r].userResponse.passwordHash[3] = req[r].input.oldPassword

RotationOtpRight(r) ==
    /\ OtpEnrolled(r)
    /\ req[r].input.otp =
          TOTPGenerate(decodeHex(req[r].userResponse.twoFactorSecret))

\* The requests whose write a password hash can come from: the salt names the
\* request that hashed it.
HashedBy(hash) == hash[2]

\* C12: an updateUserPassword with the right old password fails with
\* InvalidOtp on a wrong code and with TwoFactorNotEnabled on an account
\* without a two-factor secret; a row's password hash is replaced only by a
\* call whose old password and OTP code were both right.
C12_RotationNeedsOtp ==
    /\ \A r \in UpdatePasswords :
          /\ (req[r].pc = "done" /\ OldPasswordRight(r) /\ OtpEnrolled(r)
                 /\ ~RotationOtpRight(r)) => Failed(r, "InvalidOtp")
          /\ (req[r].pc = "done" /\ OldPasswordRight(r) /\ ~OtpEnrolled(r))
                 => Failed(r, "TwoFactorNotEnabled")
          /\ "setPasswordHash" \in req[r].storeOps =>
                 OldPasswordRight(r) /\ RotationOtpRight(r)
    /\ \A a \in Committed :
          (a.passwordHash # Null /\ HashedBy(a.passwordHash) \in UpdatePasswords)
              => /\ OldPasswordRight(HashedBy(a.passwordHash))
                 /\ RotationOtpRight(HashedBy(a.passwordHash))

\* One call was refused for its wrong code and another replaced the hash.
C12_Witness ==
    /\ \E r \in UpdatePasswords :
          OldPasswordRight(r) /\ OtpEnrolled(r) /\ Failed(r, "InvalidOtp")
    /\ \E a \in Committed :
          a.passwordHash # Null /\ HashedBy(a.passwordHash) \in UpdatePasswords

\* C13: a sign-up whose transaction caught an error returns with that same
\* error (UsernameUnavailable for a taken username), and its rows are gone.
C13_OriginalErrorSurfaced ==
    \A r \in SignUps :
        (req[r].pc = "done" /\ req[r].caught # Absent) =>
            /\ req[r].error = req[r].caught
            /\ RowsOf(r) = {}

\* Row b is row a with at most the named columns changed.
SameButPassword(a, b) == [b EXCEPT !.passwordHash = a.passwordHash] = a

SameButLoginAndRecovery(a, b) ==
    [b EXCEPT !.lastLoginAt = a.lastLoginAt, !.recoveryCode = a.recoveryCode] = a

\* C14: a row created by a sign-up carries the id and publicId that sign-up
\* assigned; no step removes a committed row or changes its id, publicId or
\* username; a step of updateUserPassword changes no column but passwordHash
\* and a step of signInWithPassword none but lastLoginAt and recoveryCode, and
\* neither adds or removes rows.
C14_FieldFootprint ==
    [][/\ \A r \in SignUps : \A a \in RowsOf(r) :
             req[r].accountId \in {0, a.id}
       /\ \A a \in accounts :
             a.tx = 0 =>
                \E b \in accounts' :
                    /\ b.tx = 0 /\ b.id = a.id /\ b.publicId = a.publicId
                    /\ b.username = a.username
       /\ \A r \in Reqs :
             (req'[r] # req[r] /\ req'[r].op = "updatePassword") =>
                /\ \A a \in accounts : \E b \in accounts' : SameButPassword(a, b)
                /\ \A b \in accounts' : \E a \in accounts : SameButPassword(a, b)
       /\ \A r \in Reqs :
             (req'[r] # req[r] /\ req'[r].op = "signIn") =>
                /\ \A a \in accounts :
                      \E b \in accounts' : SameButLoginAndRecovery(a, b)
                /\ \A b \in accounts' :
                      \E a \in accounts : SameButLoginAndRecovery(a, b)]_vars

\* A rotation has replaced the hash and a sign-in has cleared the recovery
\* code and stamped lastLoginAt on the seeded row, which keeps its publicId.
C14_Witness ==
    \E r \in UpdatePasswords, u \in SignIns :
        /\ Succeeded(r) /\ Succeeded(u)
        /\ "clearRecoveryCode" \in req[u].storeOps
        /\ \E a \in Committed :
              /\ a.id = req[r].accountId
              /\ HashedBy(a.passwordHash) = r
              /\ a.recoveryCode = Null /\ a.lastLoginAt = u
              /\ a.publicId = <<"account", 0>>

\* The sign-ups and sign-ins that have been issued a session.
SessionHolders ==
    {r \in SignIns \cup SignUps : req[r].session # 0}

LoginAccount(r) ==
    IF req[r].op = "signUp" THEN req[r].accountId ELSE req[r].userResponse.id

\* C15: a step changes a row's lastLoginAt only when it is the returning step
\* of a sign-in or sign-up that holds a session and has no error; such a
\* returning step stamps the request's account; and under FairSpec every
\* sign-in or sign-up that is issued a session goes on to that step.
C15_LastLoginAt ==
    /\ [][/\ \A a \in accounts : \A b \in accounts' :
                (a.id = b.id /\ a.tx = 0 /\ b.tx = 0
                    /\ a.lastLoginAt # b.lastLoginAt) =>
                   \E r \in Reqs :
                       /\ r \in SessionHolders /\ Returns(r)
                       /\ req'[r].error = Absent
                       /\ b.id = LoginAccount(r)
          /\ \A r \in Reqs :
                (Returns(r) /\ req'[r].op \in {"signIn", "signUp"}
                    /\ req'[r].error = Absent) =>
                   /\ r \in SessionHolders
                   /\ \E b \in accounts' :
                         b.id = LoginAccount(r) /\ b.tx = 0 /\ b.lastLoginAt = r]_vars
    /\ \A r \in Reqs :
          (r \in SessionHolders) ~>
              (Succeeded(r) /\ "setLastLoginAt" \in req[r].storeOps)

\* Both a sign-in and a sign-up have stamped the row of their account.
C15_Witness ==
    \E r \in SignIns, u \in SignUps :
        /\ Succeeded(r) /\ Succeeded(u)
        /\ \E a \in Committed : a.id = LoginAccount(r) /\ a.lastLoginAt = r
        /\ \E a \in Committed : a.id = LoginAccount(u) /\ a.lastLoginAt = u

\* Sign-in s started after the updateUserPassword u had returned with success,
\* u replaced one password by a different one, s read the row u wrote, and s
\* has returned.
SignInAfterRotation(s, u) ==
    /\ s \in SignIns /\ u \in UpdatePasswords
    /\ u \in req[s].after /\ Succeeded(u)
    /\ req[u].input.newPassword # req[u].input.oldPassword
    /\ req[s].pc = "done" /\ LookedUp(s)
    /\ req[s].userResponse.id = req[u].accountId
    /\ PasswordEnrolled(s)
    /\ HashedBy(req[s].userResponse.passwordHash) = u

\* C16: a sign-in that starts after a successful rotation to a different
\* password fails with InvalidCredentials when it supplies the old password,
\* and succeeds when it supplies the new password and the right OTP code (and
\* no recovery code).
C16_OldPasswordRetired ==
    \A s \in Reqs, u \in Reqs :
        SignInAfterRotation(s, u) =>
            /\ req[s].input.password = req[u].input.oldPassword =>
                  Failed(s, "InvalidCredentials")
            /\ (/\ req[s].input.password = req[u].input.newPassword
                /\ OtpRight(s)
                /\ req[s].input.recoveryCode = Absent) =>
                  /\ Succeeded(s)
                  /\ \E t \in sessions :
                        t.sid = s /\ t.accountId = req[u].accountId /\ t.valid

\* A sign-in with the new password and the right code has succeeded after a
\* rotation.
C16_Witness ==
    \E s \in Reqs, u \in Reqs :
        /\ SignInAfterRotation(s, u)
        /\ req[s].input.password = req[u].input.newPassword
        /\ OtpRight(s)
        /\ req[s].input.recoveryCode = Absent
        /\ Succeeded(s)

\* A sign-in with the old password and the right code has been turned away
\* after a rotation.
C16_OldPasswordRefused ==
    \E s \in Reqs, u \in Reqs :
        /\ SignInAfterRotation(s, u)
        /\ req[s].input.password = req[u].input.oldPassword
        /\ OtpRight(s)
        /\ Failed(s, "InvalidCredentials")

\* The step is one of request r.
StepOf(r) == req'[r] # req[r]

\* C17: an updateUserPassword fails only at its checks, and no step it has
\* taken up to there changes a row or a session; a failed call has written no
\* hash, and no session carries its id.
C17_FailedRotationChangesNothing ==
    /\ [][\A r \in Reqs :
            (StepOf(r) /\ req'[r].op = "updatePassword") =>
               /\ (req[r].error = Absent /\ req'[r].error # Absent) =>
                     req[r].pc = "verify"
               /\ req[r].pc \in {"idle", "lookup", "verify"} =>
                     accounts' = accounts /\ sessions' = sessions]_vars
    /\ [](\A r \in UpdatePasswords :
            req[r].error # Absent =>
               /\ req[r].pc = "done"
               /\ req[r].error \in {"AccountNotFound", "PasswordSignInDisabled",
                                    "InvalidCredentials", "TwoFactorNotEnabled",
                                    "InvalidOtp"}
               /\ StoreWrites(r) = {}
               /\ NoSessionFor(r)
               /\ \A a \in accounts :
                     a.passwordHash # Null => HashedBy(a.passwordHash) # r)

\* A call asking to invalidate all sessions has failed on its OTP code: the
\* seeded hash and the seeded session are as they were.
C17_Witness ==
    \E r \in UpdatePasswords :
        /\ Failed(r, "InvalidOtp")
        /\ req[r].input.invalidateAllSessions
        /\ \E a \in Committed :
              a.id = req[r].accountId
                 /\ a.passwordHash = Argon2idHash(SeedPassword, 0)
        /\ \E t \in sessions : t.sid = 0 /\ t.valid
        /\ sessions = {t \in sessions : t.sid = 0}

\* C18: the recovery code of an existing row changes only in the clearing step
\* of a sign-in, which sets it to null on the row its lookup returned; a
\* sign-in that has cleared a code never ends with an error, so a failed
\* sign-in has written nothing.
C18_ClearedOnlyBySuccess ==
    /\ [][\A a \in accounts : \A b \in accounts' :
            (a.id = b.id /\ a.tx = 0 /\ b.tx = 0
                /\ a.recoveryCode # b.recoveryCode) =>
               \E r \in Reqs :
                   /\ StepOf(r) /\ req[r].op = "signIn" /\ req[r].pc = "clear"
                   /\ req[r].userResponse.id = a.id
                   /\ b.recoveryCode = Null
                   /\ req'[r].error = Absent]_vars
    /\ [](\A r \in SignIns :
            /\ "clearRecoveryCode" \in req[r].storeOps => req[r].error = Absent
            /\ req[r].error # Absent => StoreWrites(r) = {})

\* A sign-in with the right recovery code and a wrong password has failed and
\* left the code in place: a later sign-in has read it, used it and succeeded.
C18_Witness ==
    \E r \in SignIns, s \in SignIns :
        /\ Failed(r, "InvalidCredentials") /\ RecoveryRight(r)
        /\ r \in req[s].after
        /\ RecoveryRight(s) /\ Succeeded(s)
        /\ "clearRecoveryCode" \in req[s].storeOps
        /\ \E a \in Committed :
              a.id = req[s].userResponse.id /\ a.recoveryCode = Null

\* Sign-in s verified its password against the hash that the
\* updateUserPassword u went on to replace, and u, asked to invalidate all
\* sessions, has returned with success.
VerifiedReplacedPassword(s, u) ==
    /\ s \in SignIns /\ u \in UpdatePasswords
    /\ Succeeded(u) /\ req[u].input.invalidateAllSessions
    /\ LookedUp(s) /\ req[s].userResponse.id = req[u].accountId
    /\ req[s].validPassword
    /\ req[s].userResponse.passwordHash = req[u].userResponse.passwordHash
    /\ \E a \in Committed :
          a.id = req[u].accountId
             /\ a.passwordHash # req[s].userResponse.passwordHash

\* C19: once an updateUserPassword with invalidateAllSessions has returned
\* with success, no valid session of the account belongs to a sign-in that
\* verified the replaced password.
C19_NoSessionFromReplacedPassword ==
    \A s \in Reqs, u \in Reqs :
        VerifiedReplacedPassword(s, u) =>
            ~\E t \in sessions :
                t.sid = s /\ t.accountId = req[u].accountId /\ t.valid

\* The first check of the list that sign-in r does not pass, judged from the
\* request's input and the row its lookup returned; Absent when it passes all.
FirstFailingCheck(r) ==
    LET input == req[r].input IN
    IF NumFactors(input) < 2 THEN "InsufficientFactors"
    ELSE IF ~LookedUp(r) THEN "AccountNotFound"
    ELSE IF input.password # Absent /\ ~PasswordEnrolled(r)
         THEN "PasswordSignInDisabled"
    ELSE IF input.password # Absent /\ ~PasswordRight(r)
         THEN "InvalidCredentials"
    ELSE IF input.twoFactorCode # NoCode /\ ~OtpEnrolled(r)
         THEN "OtpSignInDisabled"
    ELSE IF input.twoFactorCode # NoCode /\ ~OtpRight(r) THEN "InvalidOtp"
    ELSE IF input.recoveryCode # Absent /\ ~RecoveryEnrolled(r)
         THEN "RecoverySignInDisabled"
    ELSE IF input.recoveryCode # Absent /\ ~RecoveryRight(r)
         THEN "InvalidRecoveryCode"
    ELSE Absent

\* C20: a returned sign-in reports the error of the first check in the list
\* that it does not pass, and nothing of a later check has happened: after
\* InsufficientFactors no row was read, after AccountNotFound or a password
\* error no factor is marked valid, after an OTP error the recovery code is
\* neither marked valid nor cleared.
C20_FirstFailingCheckReported ==
    \A r \in SignIns :
        req[r].pc = "done" =>
            /\ req[r].error = FirstFailingCheck(r)
            /\ req[r].error = "InsufficientFactors" =>
                  req[r].storeOps = {} /\ ~LookedUp(r)
            /\ req[r].error \in {"AccountNotFound", "PasswordSignInDisabled",
                                 "InvalidCredentials"} =>
                  /\ ~req[r].validPassword /\ ~req[r].otpValid
                  /\ ~req[r].recoveryCodeValid /\ StoreWrites(r) = {}
            /\ req[r].error \in {"OtpSignInDisabled", "InvalidOtp"} =>
                  /\ ~req[r].otpValid /\ ~req[r].recoveryCodeValid
                  /\ StoreWrites(r) = {}
            /\ req[r].error \in {"RecoverySignInDisabled",
                                 "InvalidRecoveryCode"} =>
                  ~req[r].recoveryCodeValid /\ StoreWrites(r) = {}

\* All three factors are supplied and wrong for an account that has all
\* three: the password's error is the one reported.
C20_Witness ==
    \E r \in SignIns :
        /\ NumFactors(req[r].input) = 3 /\ LookedUp(r)
        /\ PasswordEnrolled(r) /\ OtpEnrolled(r) /\ RecoveryEnrolled(r)
        /\ RightFactors(r) = {}
        /\ Failed(r, "InvalidCredentials")

====
